---- MODULE Spec2Model ----
(***************************************************************************)
(* Model of the tag / namespace binding core of ironwinrm:                 *)
(*   crates/protocol/src/cores/namespace.rs  (registry, declarations)      *)
(*   crates/protocol/src/cores/tag.rs        (Tag, TagVisitor)             *)
(*   crates/xml/src/builder/attribute.rs     (Attribute::ns_fmt)           *)
(*   crates/xml/src/parser/mod.rs            (NodeDeserializer)            *)
(*                                                                         *)
(* Option<T> is a tuple of length 0 or 1, Result<T, E> a record with the   *)
(* fields tag, v, e.  A formatted string is the tuple of its pieces.       *)
(***************************************************************************)
EXTENDS Integers, Sequences, FiniteSets, TLC

VARIABLES
    as_tuple_call,   \* registry: the last Namespace::as_tuple call
    as_tuple_prev,   \* registry: the as_tuple call before it
    try_from_call,   \* registry: the last Namespace::try_from(&str) call
    tag,             \* builder: the Tag under construction (Option)
    built,           \* builder: the with_* calls made on the Tag, oldest first
    conversion,      \* builder: outcome of Tag::into_element (Option)
    binding,         \* parser: the TagName binding N of the visitor (Option)
    visitor,         \* parser: the TagVisitor (Option)
    visits,          \* parser: the visit_node calls made, oldest first
    outcome,         \* parser: result of finish / from_node (Option)
    fmt_call         \* formatter: the last Attribute::ns_fmt call (Option)

vars ==
    <<as_tuple_call, as_tuple_prev, try_from_call, tag, built, conversion,
      binding, visitor, visits, outcome, fmt_call>>

registryVars == <<as_tuple_call, as_tuple_prev, try_from_call>>
builderVars == <<tag, built, conversion>>
parserVars == <<binding, visitor, visits, outcome>>
fmtVars == <<fmt_call>>

---------------------------------------------------------------------------
(* Option and Result *)

None == <<>>
Some(x) == <<x>>
Ok(x) == [tag |-> "Ok", v |-> <<x>>, e |-> <<>>]
Err(x) == [tag |-> "Err", v |-> <<>>, e |-> <<x>>]
IsOk(r) == r.tag = "Ok"
IsErr(r) == r.tag = "Err"

Range(s) == {s[i] : i \in 1..Len(s)}

---------------------------------------------------------------------------
(* namespace.rs: constants and the registry *)

PWSH_NAMESPACE == "http://schemas.microsoft.com/wbem/wsman/1/windows/shell"
PWSH_NAMESPACE_ALIAS == "rsp"
POWERSHELL_NAMESPACE == "http://schemas.microsoft.com/powershell/Microsoft.PowerShell"
WSA_NAMESPACE == "http://schemas.xmlsoap.org/ws/2004/08/addressing"
WSA_NAMESPACE_ALIAS == "a"
SOAP_NAMESPACE == "http://www.w3.org/2003/05/soap-envelope"
SOAP_NAMESPACE_ALIAS == "s"
MS_WSMAN_NAMESPACE == "http://schemas.microsoft.com/wbem/wsman/1/wsman.xsd"
MS_WSMAN_NAMESPACE_ALIAS == "w"
WS_MANAGEMENT_NAMESPACE == "http://schemas.dmtf.org/wbem/wsman/1/wsman.xsd"
WS_MANAGEMENT_NAMESPACE_ALIAS == "wsman"
WS_TRANSFER_NAMESPACE == "http://schemas.xmlsoap.org/ws/2004/09/transfer"
WS_TRANSFER_NAMESPACE_ALIAS == "x"

\* enum Namespace
Namespace ==
    {"PowerShell", "RspShell", "WsAddressing", "MsWsManagement",
     "WsManagement", "Soap", "WsTrasfer"}

\* Namespace::as_tuple: (url, alias) of a variant
as_tuple(self) ==
    CASE self = "PowerShell" -> <<PWSH_NAMESPACE, PWSH_NAMESPACE_ALIAS>>
      [] self = "RspShell" ->
            <<"http://schemas.microsoft.com/wbem/wsman/1/windows/shell", "rsp">>
      [] self = "WsAddressing" -> <<WSA_NAMESPACE, WSA_NAMESPACE_ALIAS>>
      [] self = "MsWsManagement" -> <<MS_WSMAN_NAMESPACE, MS_WSMAN_NAMESPACE_ALIAS>>
      [] self = "WsManagement" -> <<WS_MANAGEMENT_NAMESPACE, WS_MANAGEMENT_NAMESPACE_ALIAS>>
      [] self = "Soap" -> <<SOAP_NAMESPACE, SOAP_NAMESPACE_ALIAS>>
      [] self = "WsTrasfer" -> <<WS_TRANSFER_NAMESPACE, WS_TRANSFER_NAMESPACE_ALIAS>>

url(self) == as_tuple(self)[1]
alias(self) == as_tuple(self)[2]

\* the arms of the match in TryFrom<&str>, in source order; the first arm
\* whose pattern equals the value is taken
TryFromArms ==
    << <<POWERSHELL_NAMESPACE, "PowerShell">>,
       <<PWSH_NAMESPACE, "RspShell">>,
       <<WSA_NAMESPACE, "WsAddressing">>,
       <<MS_WSMAN_NAMESPACE, "MsWsManagement">>,
       <<WS_MANAGEMENT_NAMESPACE, "WsManagement">>,
       <<SOAP_NAMESPACE, "Soap">>,
       <<WS_TRANSFER_NAMESPACE, "WsTrasfer">> >>

\* impl TryFrom<&str> for Namespace
try_from(value) ==
    LET hits == {i \in 1..Len(TryFromArms) : TryFromArms[i][1] = value}
    IN  IF hits = {}
        THEN Err("Unknown namespace")
        ELSE Ok(TryFromArms[CHOOSE i \in hits : \A j \in hits : i <= j][2])

\* URIs handed to try_from: every constant of namespace.rs and URIs that
\* are none of them
UnknownUris ==
    {"urn:unknown", "http://schemas.xmlsoap.org/soap/envelope/",
     "http://www.w3.org/XML/1998/namespace"}

UriInputs ==
    {TryFromArms[i][1] : i \in 1..Len(TryFromArms)} \cup UnknownUris

InitRegistry ==
    /\ as_tuple_call = None
    /\ as_tuple_prev = None
    /\ try_from_call = None

\* a call of Namespace::as_tuple (url and alias are its two projections)
AsTuple(k) ==
    /\ as_tuple_prev' = as_tuple_call
    /\ as_tuple_call' = Some([self |-> k, tuple |-> as_tuple(k)])
    /\ UNCHANGED <<try_from_call>>
    /\ UNCHANGED <<builderVars, parserVars, fmtVars>>

\* a call of Namespace::try_from(&str)
TryFrom(u) ==
    /\ try_from_call' = Some([value |-> u, result |-> try_from(u)])
    /\ UNCHANGED <<as_tuple_call, as_tuple_prev>>
    /\ UNCHANGED <<builderVars, parserVars, fmtVars>>

NextRegistry ==
    \/ \E k \in Namespace : AsTuple(k)
    \/ \E u \in UriInputs : TryFrom(u)

---------------------------------------------------------------------------
(* tag.rs: Tag and the serialization path *)

MaxDecls == 3
MaxAttrs == 2

\* TagName bindings N: the constants TAG_NAME and NAMESPACE
TagNames ==
    {[TAG_NAME |-> "Action", NAMESPACE |-> Some(WSA_NAMESPACE)],
     [TAG_NAME |-> "To", NAMESPACE |-> Some(WSA_NAMESPACE)],
     [TAG_NAME |-> "Name", NAMESPACE |-> None]}

\* content values V
TagValues == {"http://schemas.xmlsoap.org/ws/2004/09/transfer/Get", "PT60.000S"}

\* protocol attributes: name, value, optional namespace
Attributes ==
    {[name |-> "Name", value |-> "OptimizeEnumeration", namespace |-> None],
     [name |-> "mustUnderstand", value |-> "true", namespace |-> Some("Soap")]}

\* From<protocol Attribute> for the builder's Attribute
AttributeInto(a) ==
    [name |-> a.name,
     value |-> a.value,
     namespace |-> IF a.namespace = None THEN None ELSE Some(url(a.namespace[1]))]

\* the kinds the serialization path declares
DeclaredNamespaces == {"Soap", "WsAddressing", "WsManagement", "RspShell"}

\* NamespaceDeclaration::new
NamespaceDeclaration_new == <<>>

\* a push that merges a kind already declared
NamespaceDeclaration_push_dedup(self, namespace) ==
    IF namespace \in Range(self) THEN self ELSE Append(self, namespace)

\* NamespaceDeclaration::push
NamespaceDeclaration_push(self, namespace) == Append(self, namespace)

\* NamespaceDeclaration::namespaces
namespaces(self) == self

\* Tag::new
Tag_new(N, value) ==
    [N |-> N,
     value |-> value,
     attributes |-> <<>>,
     namespaces_declaration |-> NamespaceDeclaration_new]

\* Tag::with_attribute
with_attribute(self, attribute) ==
    [self EXCEPT !.attributes = Append(@, attribute)]

\* Tag::with_declaration
with_declaration(self, declaration) ==
    [self EXCEPT !.namespaces_declaration = NamespaceDeclaration_push(@, declaration)]

\* Tag::name
name(self) == self.N.TAG_NAME

\* the builder's Element and the calls into_element makes on it
Element_new(n) ==
    [name |-> n, namespace |-> None, namespace_declarations |-> <<>>,
     attributes |-> <<>>, content |-> None]

ElementApply(element, call) ==
    CASE call.fn = "Element::new" -> Element_new(call.arg)
      [] call.fn = "set_namespace" -> [element EXCEPT !.namespace = Some(call.arg)]
      [] call.fn = "add_namespace_declaration" ->
            [element EXCEPT !.namespace_declarations = Append(@, call.arg)]
      [] call.fn = "add_attribute" ->
            [element EXCEPT !.attributes = Append(@, call.arg)]
      [] call.fn = "append_to_element" ->
            [element EXCEPT !.content = Some(call.arg)]

RECURSIVE ElementFold(_, _)
ElementFold(element, calls) ==
    IF calls = <<>> THEN element
    ELSE ElementFold(ElementApply(element, Head(calls)), Tail(calls))

\* an into_element that hands the element to the content value before the
\* attributes are added
into_element_calls_content_first(self) ==
    LET decls == namespaces(self.namespaces_declaration)
    IN  <<[fn |-> "Element::new", arg |-> self.N.TAG_NAME]>>
        \o (IF self.N.NAMESPACE # None
            THEN <<[fn |-> "set_namespace", arg |-> self.N.NAMESPACE[1]]>>
            ELSE <<>>)
        \o [i \in 1..Len(decls) |->
               [fn |-> "add_namespace_declaration", arg |-> as_tuple(decls[i])]]
        \o <<[fn |-> "append_to_element", arg |-> self.value]>>
        \o [i \in 1..Len(self.attributes) |->
               [fn |-> "add_attribute", arg |-> AttributeInto(self.attributes[i])]]

\* Tag::into_element: the calls it makes, in the order it makes them
into_element_calls(self) ==
    LET decls == namespaces(self.namespaces_declaration)
    IN  <<[fn |-> "Element::new", arg |-> self.N.TAG_NAME]>>
        \o (IF self.N.NAMESPACE # None
            THEN <<[fn |-> "set_namespace", arg |-> self.N.NAMESPACE[1]]>>
            ELSE <<>>)
        \o [i \in 1..Len(decls) |->
               [fn |-> "add_namespace_declaration", arg |-> as_tuple(decls[i])]]
        \o [i \in 1..Len(self.attributes) |->
               [fn |-> "add_attribute", arg |-> AttributeInto(self.attributes[i])]]
        \o <<[fn |-> "append_to_element", arg |-> self.value]>>

\* Tag::into_element: the calls, the element the content value was handed
\* and the element returned
into_element(self) ==
    LET calls == into_element_calls(self)
        at == CHOOSE i \in 1..Len(calls) : calls[i].fn = "append_to_element"
    IN  [self |-> self,
         calls |-> calls,
         received |-> ElementFold(Element_new(""), SubSeq(calls, 1, at - 1)),
         element |-> ElementFold(Element_new(""), calls)]

InitBuilder ==
    /\ tag = None
    /\ built = <<>>
    /\ conversion = None

New(N, v) ==
    /\ tag = None
    /\ conversion = None
    /\ tag' = Some(Tag_new(N, v))
    /\ UNCHANGED <<built, conversion>>
    /\ UNCHANGED <<registryVars, parserVars, fmtVars>>

WithAttribute(a) ==
    /\ tag # None
    /\ Len(tag[1].attributes) < MaxAttrs
    /\ tag' = Some(with_attribute(tag[1], a))
    /\ built' = Append(built, [fn |-> "with_attribute", arg |-> a])
    /\ UNCHANGED <<conversion>>
    /\ UNCHANGED <<registryVars, parserVars, fmtVars>>

WithDeclaration(ns) ==
    /\ tag # None
    /\ Len(tag[1].namespaces_declaration) < MaxDecls
    /\ tag' = Some(with_declaration(tag[1], ns))
    /\ built' = Append(built, [fn |-> "with_declaration", arg |-> ns])
    /\ UNCHANGED <<conversion>>
    /\ UNCHANGED <<registryVars, parserVars, fmtVars>>

\* into_element takes the Tag by value
IntoElement ==
    /\ tag # None
    /\ conversion' = Some(into_element(tag[1]))
    /\ tag' = None
    /\ UNCHANGED <<built>>
    /\ UNCHANGED <<registryVars, parserVars, fmtVars>>

NextBuilder ==
    \/ \E N \in TagNames, v \in TagValues : New(N, v)
    \/ \E a \in Attributes : WithAttribute(a)
    \/ \E ns \in DeclaredNamespaces : WithDeclaration(ns)
    \/ IntoElement

---------------------------------------------------------------------------
(* the parsed node tree handed to the deserializers *)

MaxNodeAttrs == 2
MaxNodeNs == 2
MaxProbeAttrs == 2
MaxProbeNs == 1
MaxVisits == 2

\* attributes as they stand in the document, in document order
NodeAttributes ==
    <<[name |-> "Name", value |-> "OptimizeEnumeration"],
      [name |-> "mustUnderstand", value |-> "true"],
      [name |-> "lang", value |-> "en-US"],
      [name |-> "id", value |-> "1"]>>

\* URIs a node may declare
DeclaredUris == {WSA_NAMESPACE, "urn:unknown"}

\* the children of an element: a text the content value accepts, or
\* children it rejects
MalformedChildren == "<unexpected/>"
Children == {"http://schemas.xmlsoap.org/ws/2004/09/transfer/Get", MalformedChildren}

SeqsUpTo(S, n) == UNION {[1..k -> S] : k \in 0..n}

\* element nodes: tag_name().name(), tag_name().namespace(), attributes(),
\* namespaces(), children(), and what Attribute::from_node makes of the node
ElementNodes(maxAttrs, maxNs, ownNamespaces, asAttributes) ==
    [is_element : {TRUE},
     name : {"Action", "To"},
     namespace : ownNamespaces,
     attributes : {SubSeq(NodeAttributes, 1, k) : k \in 0..maxAttrs},
     namespaces : SeqsUpTo(DeclaredUris, maxNs),
     children : Children,
     as_attribute : {None} \cup {Some(a) : a \in asAttributes}]

\* a text node has no name, attributes, declarations or children
TextNode ==
    [is_element |-> FALSE, name |-> "", namespace |-> None,
     attributes |-> <<>>, namespaces |-> <<>>, children |-> "",
     as_attribute |-> None]

Nodes ==
    ElementNodes(MaxNodeAttrs, MaxNodeNs,
                 {None, Some(WSA_NAMESPACE), Some(SOAP_NAMESPACE)}, Attributes)
    \cup {TextNode}

ProbeNodes ==
    ElementNodes(MaxProbeAttrs, MaxProbeNs, {Some(WSA_NAMESPACE)},
                 {a \in Attributes : a.namespace = None})
    \cup {TextNode}

\* XmlError::InvalidXml(String)
InvalidXml(text) == [kind |-> "InvalidXml", text |-> text]

Unit == "()"

\* V::from_children on the element and text children of a node
V_from_children(children) ==
    IF children = MalformedChildren
    THEN Err(InvalidXml(<<"Unexpected content">>))
    ELSE Ok(children)

\* Attribute::from_node
Attribute_from_node(node) ==
    IF node.as_attribute = None
    THEN Err(InvalidXml(<<"Unknown attribute">>))
    ELSE Ok(node.as_attribute[1])

---------------------------------------------------------------------------
(* namespace.rs: the deserializers *)

\* impl TryFrom<&xml::parser::Namespace> for Namespace
try_from_namespace(uri) ==
    IF IsOk(try_from(uri)) THEN try_from(uri) ELSE try_from(uri)

\* NamespaceDeclarationVisitor::visit_node: the loop over node.namespaces(),
\* from position i on
RECURSIVE NamespaceDeclarationVisitor_loop(_, _, _)
NamespaceDeclarationVisitor_loop(self, uris, i) ==
    IF i > Len(uris)
    THEN [visitor |-> self, result |-> Ok(Unit)]
    ELSE IF IsOk(try_from_namespace(uris[i]))
         THEN NamespaceDeclarationVisitor_loop(
                  [self EXCEPT !.namespaces = Append(@, try_from_namespace(uris[i]).v[1])],
                  uris, i + 1)
         ELSE [visitor |-> self,
               result |-> Err(InvalidXml(<<"Unknown namespace: ", uris[i]>>))]

\* NamespaceDeclarationVisitor::visit_node
NamespaceDeclarationVisitor_visit_node(self, node) ==
    NamespaceDeclarationVisitor_loop(self, node.namespaces, 1)

\* NamespaceDeclarationVisitor::finish
NamespaceDeclarationVisitor_finish(self) == Ok(self.namespaces)

\* NamespaceDeclaration::from_node: NodeDeserializer::deserialize with a
\* fresh visitor
NamespaceDeclaration_from_node(node) ==
    LET visited == NamespaceDeclarationVisitor_visit_node([namespaces |-> <<>>], node)
    IN  IF IsErr(visited.result)
        THEN visited.result
        ELSE NamespaceDeclarationVisitor_finish(visited.visitor)

\* NamespaceVisitor::visit_node
NamespaceVisitor_visit_node(self, node) ==
    IF node.namespace = None
    THEN [visitor |-> self, result |-> Err(InvalidXml(<<"No namespace found">>))]
    ELSE IF IsOk(try_from(node.namespace[1]))
         THEN [visitor |-> [self EXCEPT !.namespace = Some(try_from(node.namespace[1]).v[1])],
               result |-> Ok(Unit)]
         ELSE [visitor |-> self,
               result |-> Err(InvalidXml(<<"Unknown namespace: ", node.namespace[1]>>))]

\* NamespaceVisitor::finish
NamespaceVisitor_finish(self) ==
    IF self.namespace = None
    THEN Err(InvalidXml(<<"No namespace found">>))
    ELSE Ok(self.namespace[1])

\* Namespace::from_node (the trait's default from_node)
Namespace_from_node(node) ==
    LET visited == NamespaceVisitor_visit_node([namespace |-> None], node)
    IN  IF IsErr(visited.result)
        THEN visited.result
        ELSE NamespaceVisitor_finish(visited.visitor)

---------------------------------------------------------------------------
(* tag.rs: the parsing path *)

\* Tag::visitor
Tag_visitor ==
    [tag |-> None, attributes |-> <<>>,
     namespaces |-> NamespaceDeclaration_new, namespace |-> None]

\* TagVisitor::visit_node: the loop over node.attributes(), from position i on
RECURSIVE TagVisitor_attributes(_, _, _)
TagVisitor_attributes(self, node, i) ==
    IF i > Len(node.attributes)
    THEN self
    ELSE IF IsOk(Attribute_from_node(node))
         THEN TagVisitor_attributes(
                  [self EXCEPT !.attributes = Append(@, Attribute_from_node(node).v[1])],
                  node, i + 1)
         ELSE TagVisitor_attributes(self, node, i + 1)

\* a visit_node that drops a failed declaration instead of returning it
TagVisitor_namespaces_lenient(self, node) ==
    [visitor |->
         [self EXCEPT
             !.namespaces = IF IsErr(NamespaceDeclaration_from_node(node))
                            THEN @
                            ELSE NamespaceDeclaration_from_node(node).v[1],
             !.namespace = Namespace_from_node(node).v],
     result |-> Ok(Unit)]

\* TagVisitor::visit_node: the declarations and the namespace of the node,
\* after the content and the attributes
TagVisitor_namespaces(self, node) ==
    IF IsErr(NamespaceDeclaration_from_node(node))
    THEN [visitor |-> self, result |-> NamespaceDeclaration_from_node(node)]
    ELSE [visitor |->
              [self EXCEPT
                  !.namespaces = NamespaceDeclaration_from_node(node).v[1],
                  !.namespace = Namespace_from_node(node).v],
          result |-> Ok(Unit)]

\* TagVisitor::visit_node for the binding N
TagVisitor_visit_node(self, N, node) ==
    IF node.is_element /\ node.name = N.TAG_NAME
    THEN IF IsErr(V_from_children(node.children))
         THEN [visitor |-> self, result |-> V_from_children(node.children)]
         ELSE TagVisitor_namespaces(
                  TagVisitor_attributes(
                      [self EXCEPT !.tag = V_from_children(node.children).v],
                      node, 1),
                  node)
    ELSE TagVisitor_namespaces(TagVisitor_attributes(self, node, 1), node)

\* TagVisitor::visit_children
TagVisitor_visit_children(self) ==
    [visitor |-> self,
     result |-> Err(InvalidXml(<<"Expected a single tag, found multiple children">>))]

\* TagVisitor::finish for the binding N
TagVisitor_finish(self, N) ==
    IF self.tag # None
    THEN Ok([N |-> N,
             value |-> self.tag[1],
             attributes |-> self.attributes,
             namespaces_declaration |-> self.namespaces])
    ELSE Err(InvalidXml(<<"TagVisitor did not find a valid tag">>))

\* NodeDeserializer::deserialize driving a TagVisitor
deserialize(root, self, N) ==
    LET visited == TagVisitor_visit_node(self, N, root)
    IN  [visited |-> visited,
         result |-> IF IsErr(visited.result)
                    THEN visited.result
                    ELSE TagVisitor_finish(visited.visitor, N)]

InitParser ==
    /\ binding = None
    /\ visitor = None
    /\ visits = <<>>
    /\ outcome = None

\* Tag::<V, N>::visitor()
Visitor(N) ==
    /\ binding = None
    /\ outcome = None
    /\ binding' = Some(N)
    /\ visitor' = Some(Tag_visitor)
    /\ UNCHANGED <<visits, outcome>>
    /\ UNCHANGED <<registryVars, builderVars, fmtVars>>

\* a visit_node call on the visitor
VisitNode(node) ==
    /\ visitor # None
    /\ Len(visits) < MaxVisits
    /\ LET visited == TagVisitor_visit_node(visitor[1], binding[1], node)
       IN  /\ visitor' = Some(visited.visitor)
           /\ visits' = Append(visits, [node |-> node, result |-> visited.result])
    /\ UNCHANGED <<binding, outcome>>
    /\ UNCHANGED <<registryVars, builderVars, fmtVars>>

\* finish takes the visitor by value
Finish ==
    /\ visitor # None
    /\ outcome' = Some([via |-> "finish",
                        result |-> TagVisitor_finish(visitor[1], binding[1])])
    /\ visitor' = None
    /\ UNCHANGED <<binding, visits>>
    /\ UNCHANGED <<registryVars, builderVars, fmtVars>>

\* Tag::<V, N>::from_node(node)
FromNode(N, node) ==
    /\ binding = None
    /\ outcome = None
    /\ LET d == deserialize(node, Tag_visitor, N)
       IN  /\ visits' = <<[node |-> node, result |-> d.visited.result]>>
           /\ outcome' = Some([via |-> "Tag::from_node", result |-> d.result])
    /\ binding' = Some(N)
    /\ UNCHANGED <<visitor>>
    /\ UNCHANGED <<registryVars, builderVars, fmtVars>>

\* NamespaceDeclaration::from_node(node)
DeclarationFromNode(node) ==
    /\ binding = None
    /\ outcome = None
    /\ visits' = <<[node |-> node,
                    result |-> NamespaceDeclarationVisitor_visit_node(
                                   [namespaces |-> <<>>], node).result]>>
    /\ outcome' = Some([via |-> "NamespaceDeclaration::from_node",
                        result |-> NamespaceDeclaration_from_node(node)])
    /\ UNCHANGED <<binding, visitor>>
    /\ UNCHANGED <<registryVars, builderVars, fmtVars>>

NextFromNode ==
    \/ \E N \in TagNames, node \in Nodes : FromNode(N, node)
    \/ \E node \in Nodes : DeclarationFromNode(node)

NextVisitor ==
    \/ \E N \in TagNames : Visitor(N)
    \/ \E node \in ProbeNodes : VisitNode(node)
    \/ Finish

---------------------------------------------------------------------------
(* builder/attribute.rs: formatting an attribute *)

\* the namespaces the formatted attributes and the alias tables draw on
FmtNamespaces == {"Soap", "WsAddressing", "WsManagement"}

\* Attribute::new and Attribute::set_namespace / new_with_namespace
BuilderAttributes ==
    [name : {"Name", "mustUnderstand"},
     value : {"OptimizeEnumeration", "true"},
     namespace : {None} \cup {Some(url(k)) : k \in FmtNamespaces}]

\* alias tables: HashMap<Namespace, &str>, or no table at all
AliasMaps ==
    {None} \cup
    {Some([u \in {url(k) : k \in K} |-> alias(CHOOSE k \in K : url(k) = u)]) :
        K \in SUBSET FmtNamespaces}

\* std::fmt::Error
FmtError == "fmt::Error"

\* impl NamespaceFmt for Attribute: ns_fmt, with what it wrote to f
ns_fmt(self, alias_map) ==
    IF alias_map = None
    THEN [result |-> Err(FmtError), written |-> <<>>]
    ELSE LET namespace_alias ==
                 IF self.namespace # None /\ self.namespace[1] \in DOMAIN alias_map[1]
                 THEN Some(alias_map[1][self.namespace[1]])
                 ELSE None
             qname ==
                 IF namespace_alias # None
                 THEN <<namespace_alias[1], ":", self.name>>
                 ELSE <<self.name>>
         IN  [result |-> Ok(Unit),
              written |-> <<" ">> \o qname \o <<"=\"", self.value, "\"">>]

InitFmt == fmt_call = None

\* a call of Attribute::ns_fmt
NsFmt(a, alias_map) ==
    /\ fmt_call' = Some([self |-> a, alias_map |-> alias_map,
                         out |-> ns_fmt(a, alias_map)])
    /\ UNCHANGED <<registryVars, builderVars, parserVars>>

NextFmt == \E a \in BuilderAttributes, m \in AliasMaps : NsFmt(a, m)

---------------------------------------------------------------------------
(* specifications *)

Init ==
    /\ InitRegistry
    /\ InitBuilder
    /\ InitParser
    /\ InitFmt

Next ==
    \/ NextRegistry
    \/ NextBuilder
    \/ NextFromNode
    \/ NextVisitor
    \/ NextFmt

Spec == Init /\ [][Next]_vars

\* the registry alone
SpecRegistry == Init /\ [][NextRegistry]_vars

\* building a Tag and converting it into an Element
SpecBuilder == Init /\ [][NextBuilder]_vars

\* Tag::from_node and NamespaceDeclaration::from_node on one node
SpecFromNode == Init /\ [][NextFromNode]_vars

\* a TagVisitor driven by hand
SpecVisitor == Init /\ [][NextVisitor]_vars

\* formatting attributes
SpecFmt == Init /\ [][NextFmt]_vars

---------------------------------------------------------------------------
(* the registry *)

\* the URIs as_tuple gives the variants
CanonicalUris == {url(k) : k \in Namespace}

\* C1: looking up the canonical URI that as_tuple returned for a variant
\* succeeds and returns that variant
C1_RegistryRoundTrip ==
    (/\ as_tuple_call # None
     /\ try_from_call # None
     /\ try_from_call[1].value = as_tuple_call[1].tuple[1])
    => try_from_call[1].result = Ok(as_tuple_call[1].self)

\* C2: try_from of a URI that is the canonical URI of no variant is an error
C2_UnknownUriRejected ==
    (/\ try_from_call # None
     /\ try_from_call[1].value \notin CanonicalUris)
    => IsErr(try_from_call[1].result)

\* C3: two distinct variants have distinct default aliases
C3_AliasesDistinct ==
    (/\ as_tuple_call # None
     /\ as_tuple_prev # None
     /\ as_tuple_call[1].self # as_tuple_prev[1].self)
    => as_tuple_call[1].tuple[2] # as_tuple_prev[1].tuple[2]

---------------------------------------------------------------------------
(* the serialization path *)

IsWithDeclaration(c) == c.fn = "with_declaration"
IsWithAttribute(c) == c.fn = "with_attribute"
IsAddNamespaceDeclaration(c) == c.fn = "add_namespace_declaration"
IsAddAttribute(c) == c.fn = "add_attribute"

Args(calls) == [i \in 1..Len(calls) |-> calls[i].arg]

\* the kinds passed to with_declaration and the attributes passed to
\* with_attribute, in call order
Declared == Args(SelectSeq(built, IsWithDeclaration))
Attached == Args(SelectSeq(built, IsWithAttribute))

\* C8: namespaces() is the sequence of kinds pushed, in call order and with
\* duplicates kept, and into_element makes one add_namespace_declaration
\* call per entry, in that order
C8_DeclarationOrderPreserved ==
    /\ tag # None =>
          namespaces(tag[1].namespaces_declaration) = Declared
    /\ conversion # None =>
          Args(SelectSeq(conversion[1].calls, IsAddNamespaceDeclaration))
              = [i \in 1..Len(Declared) |-> as_tuple(Declared[i])]

\* a kind declared twice and then another one, converted into an element
C8_Witness ==
    /\ conversion # None
    /\ Len(Declared) = 3
    /\ Declared[1] = Declared[2]
    /\ Declared[2] # Declared[3]

\* C9: into_element creates the element with the bound name (and namespace),
\* then adds every declaration, then every attribute in insertion order, and
\* calls the content value last, on an element that carries all of them
C9_IntoElementOrder ==
    conversion # None =>
        LET c == conversion[1].calls
            N == conversion[1].self.N
            received == conversion[1].received
        IN  /\ c[1] = [fn |-> "Element::new", arg |-> N.TAG_NAME]
            /\ \A i \in 2..Len(c) : c[i].fn # "Element::new"
            /\ \A i \in 1..Len(c) :
                  c[i].fn = "set_namespace" =>
                      /\ i = 2
                      /\ N.NAMESPACE = Some(c[i].arg)
            /\ N.NAMESPACE # None => c[2].fn = "set_namespace"
            /\ \A i, j \in 1..Len(c) :
                  IsAddNamespaceDeclaration(c[i]) /\ IsAddAttribute(c[j]) => i < j
            /\ Args(SelectSeq(c, IsAddAttribute))
                  = [i \in 1..Len(Attached) |-> AttributeInto(Attached[i])]
            /\ \A i \in 1..Len(c) : c[i].fn = "append_to_element" <=> i = Len(c)
            /\ received.name = N.TAG_NAME
            /\ received.namespace = N.NAMESPACE
            /\ received.namespace_declarations
                  = [i \in 1..Len(Declared) |-> as_tuple(Declared[i])]
            /\ received.attributes
                  = [i \in 1..Len(Attached) |-> AttributeInto(Attached[i])]
            /\ received.content = None

\* a Tag with a namespace, declarations and attributes, with_attribute called
\* before with_declaration, converted into an element
C9_Witness ==
    /\ conversion # None
    /\ conversion[1].self.N.NAMESPACE # None
    /\ Len(Declared) >= 2
    /\ Len(Attached) = 2
    /\ Attached[1] # Attached[2]
    /\ IsWithAttribute(built[1])
    /\ conversion[1].element.content # None

---------------------------------------------------------------------------
(* the parsing path *)

\* the node of the only visit from_node makes
TheNode == visits[1].node

Matches(node, N) == node.is_element /\ node.name = N.TAG_NAME

UnknownDeclared(node) ==
    {i \in 1..Len(node.namespaces) : node.namespaces[i] \notin UriInputs \ UnknownUris}

FirstUnknown(node) ==
    node.namespaces[CHOOSE i \in UnknownDeclared(node) :
                        \A j \in UnknownDeclared(node) : i <= j]

IsUnknownNamespaceError(r, uri) ==
    /\ IsErr(r)
    /\ r.e[1].text = <<"Unknown namespace: ", uri>>

\* C4: from_node on a node that is not an element named TAG_NAME fails, and
\* the error names the expected tag
C4_MismatchNamesExpectedTag ==
    (/\ outcome # None
     /\ outcome[1].via = "Tag::from_node"
     /\ ~Matches(TheNode, binding[1]))
    => /\ IsErr(outcome[1].result)
       /\ binding[1].TAG_NAME \in Range(outcome[1].result.e[1].text)

\* C5: from_node with a binding that has a namespace yields a Tag only from
\* an element in that namespace
C5_NamespaceValidated ==
    (/\ outcome # None
     /\ outcome[1].via = "Tag::from_node"
     /\ binding[1].NAMESPACE # None
     /\ IsOk(outcome[1].result))
    => /\ TheNode.is_element
       /\ TheNode.namespace = binding[1].NAMESPACE

\* C7 as stated: on a node that declares a URI outside the registry,
\* NamespaceDeclaration::from_node and Tag::from_node both fail with the
\* unknown-namespace error
C7_UnknownDeclarationAlwaysReported ==
    (/\ outcome # None
     /\ UnknownDeclared(TheNode) # {})
    => IsUnknownNamespaceError(outcome[1].result, FirstUnknown(TheNode))

\* C7: on a node that declares a URI outside the registry,
\* NamespaceDeclaration::from_node fails with the unknown-namespace error for
\* the first such URI and Tag::from_node fails too: with the content value's
\* error when the name matched and the content did not deserialize, with the
\* unknown-namespace error in every other case
C7_UnknownDeclarationGating ==
    (/\ outcome # None
     /\ UnknownDeclared(TheNode) # {})
    => /\ IsErr(outcome[1].result)
       /\ IF /\ outcome[1].via = "Tag::from_node"
             /\ Matches(TheNode, binding[1])
             /\ TheNode.children = MalformedChildren
          THEN ~IsUnknownNamespaceError(outcome[1].result, FirstUnknown(TheNode))
          ELSE IsUnknownNamespaceError(outcome[1].result, FirstUnknown(TheNode))

\* Tag::from_node on a matching element with good content that declares a
\* known URI and then an unknown one
C7_Witness ==
    /\ outcome # None
    /\ outcome[1].via = "Tag::from_node"
    /\ Matches(TheNode, binding[1])
    /\ TheNode.children # MalformedChildren
    /\ TheNode.namespaces = <<WSA_NAMESPACE, "urn:unknown">>
    /\ IsErr(outcome[1].result)

\* what visit_node collects from the attributes of one node
Parsed(node) ==
    IF node.as_attribute = None
    THEN <<>>
    ELSE [j \in 1..Len(node.attributes) |-> node.as_attribute[1]]

\* C10: a Tag that finish returns after visits that all succeeded carries
\* the attributes and the declarations of a visited node that matched the
\* binding, and nothing from any other node
C10_TagReflectsMatchedNode ==
    (/\ outcome # None
     /\ outcome[1].via = "finish"
     /\ IsOk(outcome[1].result)
     /\ \A i \in 1..Len(visits) : IsOk(visits[i].result))
    => \E i \in 1..Len(visits) :
          /\ Matches(visits[i].node, binding[1])
          /\ outcome[1].result.v[1].attributes = Parsed(visits[i].node)
          /\ [j \in 1..Len(outcome[1].result.v[1].namespaces_declaration) |->
                 url(outcome[1].result.v[1].namespaces_declaration[j])]
                = visits[i].node.namespaces

\* added is an order-preserving selection of the attributes of the node:
\* each entry is one attribute of the node, none is taken twice
SelectedInOrder(added, attributes) ==
    \E f \in [1..Len(added) -> 1..Len(attributes)] :
        /\ \A i, j \in 1..Len(added) : i < j => f[i] < f[j]
        /\ \A i \in 1..Len(added) :
              /\ added[i].name = attributes[f[i]].name
              /\ added[i].value = attributes[f[i]].value

\* C11: a visit_node call never fails because of an attribute (its error is
\* the content's or the declarations'), keeps the content and the attributes
\* recorded before it, and adds to the accumulator the attributes of the
\* node that parse, each once and in node order, leaving the others out
C11_AttributesNonGating ==
    [][(/\ visitor # None
        /\ visitor' # None
        /\ Len(visits') = Len(visits) + 1)
       => LET old == visitor[1]
              new == visitor'[1]
              visit == visits'[Len(visits')]
              added == SubSeq(new.attributes, Len(old.attributes) + 1,
                              Len(new.attributes))
          IN  /\ IsErr(visit.result) =>
                    \/ visit.result = V_from_children(visit.node.children)
                    \/ IsUnknownNamespaceError(visit.result, FirstUnknown(visit.node))
              /\ old.tag # None => new.tag # None
              /\ SubSeq(new.attributes, 1, Len(old.attributes)) = old.attributes
              /\ SelectedInOrder(added, visit.node.attributes)]_vars

---------------------------------------------------------------------------
(* formatting *)

\* C6: formatting an attribute whose namespace is not in the alias table
\* fails and writes nothing
C6_MissingAliasFails ==
    (/\ fmt_call # None
     /\ fmt_call[1].alias_map # None
     /\ fmt_call[1].self.namespace # None
     /\ fmt_call[1].self.namespace[1] \notin DOMAIN fmt_call[1].alias_map[1])
    => /\ IsErr(fmt_call[1].out.result)
       /\ fmt_call[1].out.written = <<>>

====
